---- MODULE Spec2Model ----
(***************************************************************************)
(* A state-machine model of swaylock-custom: the parent process (main.c),  *)
(* its reactor loop and callbacks, the credential worker on the other end  *)
(* of the comm pipes, the SIGUSR1 self-pipe and the compositor.            *)
(***************************************************************************)
EXTENDS Integers, Sequences, FiniteSets, TLC

(* ---------------------------- bounds ----------------------------------- *)
MaxPwLen == 2            \* longest password typed in the model
MaxFailedAttempts == 1   \* cap on state.failed_attempts
MaxWake == 1             \* cap on the bytes queued in the wake pipe
MaxBufLen == 4           \* longest contents of a Secret Buffer used alone
MaxInitialCapacity == 2  \* largest capacity such a buffer is created with

(* ------------------------ program constants ---------------------------- *)
EXIT_SUCCESS == 0
EXIT_FAILURE == 1
EXIT_LOCK_FAILED == 2
VERDICT_OK == 1          \* the reply byte that means success
PASSWORD_BUFFER_LEN == 1024   \* state.password.buffer_len set by main
NUL == "NUL"             \* a zeroed byte of the password region

Bytes == {"a"}                       \* key codepoints
BufBytes == {"a", "b", "c"}          \* bytes stored in a buffer used alone
CorrectPw == <<"a">>                 \* the password the worker accepts
MalformedBytes == {2}                \* reply bytes that are neither 0 nor 1
Outputs == {"eDP-1"}                 \* the outputs of the session
Interfaces == {"wl_compositor", "wl_subcompositor", "wl_shm",
               "ext_session_lock_manager_v1"}
CliOptions == {"none", "ignore_empty", "bad_mode", "bad_color", "unknown",
               "version"}
ConfigLines == {"none", "ignore_empty", "bad_mode", "bad_color", "unknown"}
Keys == {"Return", "BackSpace", "Escape"} \cup Bytes
NULL == "NULL"                       \* the null pointer
(* The output names an image can be given for, in strcmp order. *)
ImageOutputNames == <<"HDMI-A-1", "eDP-1">>
(* The image files that can be read, and all the paths that can be given. *)
ReadablePaths == {"a.png", "b.png"}
ImagePaths == ReadablePaths \cup {"missing.png"}
(* The arguments of --image: <path>, :<path> and <output>:<path>. *)
ImageArgs == [output : {"none", "", "HDMI-A-1", "eDP-1"}, path : ImagePaths]
EOF == -1                            \* read() did not return one byte

VARIABLES
    pc,                 \* position of main()
    exit_code,          \* -1 while running, else the process exit status
    exit_cause,         \* which exit path was taken
    argv,               \* the command line option given
    config_line,        \* the line of the config file still to be read
    args_ignore_empty,  \* state.args.ignore_empty
    images,             \* state.images, the head of the list first
    password,           \* state.password: len, buffer_len, buffer
    auth_state,         \* state.auth_state
    input_state,        \* state.input_state
    failed_attempts,    \* state.failed_attempts
    run_display,        \* state.run_display
    locked,             \* state.locked
    globals,            \* interfaces bound by handle_global
    advertised,         \* interfaces the compositor advertises
    surfaces,           \* state.surfaces, per output
    lock_requested,     \* state.ext_session_lock_v1 exists
    comp_lock,          \* the compositor's view of the lock
    wl_err,             \* the display connection is in error
    unlock_requests,    \* number of unlock_and_destroy requests issued
    worker,             \* the credential worker process
    comm_req,           \* pipe parent -> worker: Submit messages
    comm_rep,           \* pipe worker -> parent: Verdict bytes
    sigusr_pipe,        \* bytes queued in sigusr_fds
    sigusr_handler,     \* do_sigusr installed for SIGUSR1
    sigusr_nonblock,    \* O_NONBLOCK set on sigusr_fds[1]
    auth_idle_timer,    \* state.auth_idle_timer armed
    auth_idle_due,      \* the delay of the armed timer has elapsed
    ready,              \* callbacks still to run in this loop_poll
    appended,           \* history: appends minus removes, clamped at 0,
                        \*   since the buffer was created or last cleared
    entered_loop,       \* history: the reactor loop was entered
    stop_cause          \* history: why the reactor loop stopped

vars == <<pc, exit_code, exit_cause, argv, config_line, args_ignore_empty, images,
          password,
          auth_state, input_state, failed_attempts, run_display, locked,
          globals, advertised, surfaces, lock_requested, comp_lock, wl_err,
          unlock_requests, worker, comm_req, comm_rep, sigusr_pipe,
          sigusr_handler, sigusr_nonblock, auth_idle_timer, auth_idle_due, ready, appended,
          entered_loop, stop_cause>>

exitVars == <<exit_code, exit_cause>>
smVars == <<password, appended, auth_state, input_state, failed_attempts,
            auth_idle_timer, auth_idle_due>>
wlVars == <<globals, advertised, lock_requested, comp_lock, wl_err,
            unlock_requests, locked>>
commVars == <<worker, comm_req, comm_rep>>
sigVars == <<sigusr_pipe, sigusr_handler, sigusr_nonblock>>
histVars == <<entered_loop, stop_cause>>

(* state.password before password_buffer_create: no region yet.  The      *)
(* buffer field lists the cells of the region up to the last one that is   *)
(* not zero; every cell past it is zero.                                    *)
NoPassword == [len |-> 0, buffer_len |-> 0, buffer |-> <<>>,
               region |-> "none"]

NoSurface == [listed |-> FALSE, created |-> FALSE, configured |-> FALSE,
              dirty |-> FALSE, frame_pending |-> FALSE, frame_callbacks |-> 0,
              output_name |-> NULL, image |-> NULL,
              done_seen |-> FALSE]

Init ==
    /\ pc = "start"
    /\ exit_code = -1
    /\ exit_cause = "none"
    /\ argv \in CliOptions
    /\ config_line \in ConfigLines
    /\ args_ignore_empty = FALSE
    /\ images = <<>>
    /\ password = NoPassword
    /\ appended = 0
    /\ auth_state = "IDLE"
    /\ input_state = "IDLE"
    /\ failed_attempts = 0
    /\ run_display = FALSE
    /\ locked = FALSE
    /\ globals = {}
    /\ advertised \in SUBSET Interfaces
    /\ surfaces = [o \in Outputs |-> NoSurface]
    /\ lock_requested = FALSE
    /\ comp_lock = "none"
    /\ wl_err = FALSE
    /\ unlock_requests = 0
    /\ worker = "none"
    /\ comm_req = <<>>
    /\ comm_rep = <<>>
    /\ sigusr_pipe = 0
    /\ sigusr_handler = FALSE
    /\ sigusr_nonblock = FALSE
    /\ auth_idle_timer = FALSE
    /\ auth_idle_due = FALSE
    /\ ready = <<>>
    /\ entered_loop = FALSE
    /\ stop_cause = {}

(* The process ends: return from main, or exit(). *)
Exit(code, cause) ==
    /\ pc' = "done"
    /\ exit_code' = code
    /\ exit_cause' = cause


(* ------------------------- option parsing ------------------------------ *)
(* parse_options: the value it returns for one option.  An option without  *)
(* a case ends in the default branch; a scaling mode is checked only when  *)
(* a state is passed; parse_color never fails.                              *)
parse_options(opt, has_state) ==
    IF opt = "unknown" THEN 1
    ELSE IF opt = "bad_mode" /\ has_state THEN 1
    ELSE 0

(* parse_options: its effect on state.args.ignore_empty. *)
parse_ignore_empty(opt, has_state, cur) ==
    IF has_state /\ opt = "ignore_empty" THEN TRUE ELSE cur

(* load_config: every line goes through parse_options with the state; the  *)
(* loop stops at a failing line, and the function returns 0 regardless.     *)
load_config(line) == 0

(* Variant of main_init: initialize_pw_backend is not called. *)
main_init_no_pw_backend ==
    /\ pc = "start"
    /\ failed_attempts' = 0
    /\ images' = images
    /\ args_ignore_empty' = TRUE
    /\ pc' = "parse_early"
    /\ UNCHANGED <<exitVars, argv, config_line, password, appended, auth_state,
                   input_state, auth_idle_timer, auth_idle_due, run_display, surfaces,
                   wlVars, commVars, sigVars, ready, histVars>>

(* Variant of main_init: ignore_empty defaults to false. *)
main_init_ignore_empty_false ==
    /\ pc = "start"
    /\ worker' = "alive"
    /\ failed_attempts' = 0
    /\ images' = images
    /\ args_ignore_empty' = FALSE
    /\ pc' = "parse_early"
    /\ UNCHANGED <<exitVars, argv, config_line, password, appended, auth_state, input_state,
                   auth_idle_timer, auth_idle_due, run_display, surfaces, wlVars, comm_req,
                   comm_rep, sigVars, ready, histVars>>

(* -------------------------- main: start-up ----------------------------- *)
(* log_init, initialize_pw_backend (fork of the worker, privilege drop),   *)
(* failed_attempts = 0 and the default arguments.                           *)
main_init ==
    /\ pc = "start"
    /\ worker' = "alive"
    /\ failed_attempts' = 0
    /\ images' = images
    /\ args_ignore_empty' = TRUE
    /\ pc' = "parse_early"
    /\ UNCHANGED <<exitVars, argv, config_line, password, appended, auth_state, input_state,
                   auth_idle_timer, auth_idle_due, run_display, surfaces, wlVars, comm_req,
                   comm_rep, sigVars, ready, histVars>>

(* parse_options(argc, argv, NULL, NULL, &config_path) *)
main_parse_early ==
    /\ pc = "parse_early"
    /\ IF argv = "version"
       THEN Exit(EXIT_SUCCESS, "version")
       ELSE IF parse_options(argv, FALSE) # 0
            THEN Exit(parse_options(argv, FALSE), "parse_early")
            ELSE pc' = "load_config" /\ UNCHANGED exitVars
    /\ UNCHANGED <<argv, config_line, args_ignore_empty, images, smVars, run_display, surfaces,
                   wlVars, commVars, sigVars, ready, histVars>>

(* load_config(config_path, &state, &line_mode), when a config file        *)
(* exists.  The file is not read again, so the model forgets the line.     *)
main_load_config ==
    /\ pc = "load_config"
    /\ images' = images
    /\ args_ignore_empty' =
           parse_ignore_empty(config_line, TRUE, args_ignore_empty)
    /\ IF config_line # "none" /\ load_config(config_line) # 0
       THEN Exit(load_config(config_line), "config")
       ELSE pc' = "parse_cli" /\ UNCHANGED exitVars
    /\ config_line' = "none"
    /\ UNCHANGED <<argv, smVars, run_display, surfaces, wlVars, commVars,
                   sigVars, ready, histVars>>

(* parse_options(argc, argv, &state, &line_mode, NULL) when argc > 1.  The *)
(* command line is not read again afterwards, so the model forgets it.     *)
main_parse_cli ==
    /\ pc = "parse_cli"
    /\ images' = images
    /\ args_ignore_empty' = parse_ignore_empty(argv, TRUE, args_ignore_empty)
    /\ IF argv # "none" /\ parse_options(argv, TRUE) # 0
       THEN Exit(parse_options(argv, TRUE), "parse_cli")
       ELSE pc' = "password_create" /\ UNCHANGED exitVars
    /\ argv' = "none"
    /\ UNCHANGED <<config_line, smVars, run_display, surfaces, wlVars, commVars, sigVars,
                   ready, histVars>>

(* --------------------------- secret buffer ----------------------------- *)
(* The cells of a region, without the zero cells at its end. *)
RECURSIVE trim_zero(_)
trim_zero(cells) ==
    IF cells = <<>> \/ cells[Len(cells)] # NUL THEN cells
    ELSE trim_zero(SubSeq(cells, 1, Len(cells) - 1))

(* The cells with those from index from to index to overwritten by zero. *)
zero_cells(cells, from, to) ==
    trim_zero([i \in 1..Len(cells) |->
                 IF i >= from /\ i <= to THEN NUL ELSE cells[i]])

(* The cells with the byte b stored at index i. *)
store_cell(cells, i, b) ==
    [j \in 1..(IF i > Len(cells) THEN i ELSE Len(cells)) |->
       IF j = i THEN b ELSE IF j <= Len(cells) THEN cells[j] ELSE NUL]

(* password_buffer_create: a zeroed region of size bytes, locked in memory. *)
password_buffer_create(size) ==
    [len |-> 0, buffer_len |-> size, buffer |-> <<>>, region |-> "locked"]

(* The logical contents: the first len bytes of the region. *)
password_bytes(pw) ==
    [i \in 1..pw.len |-> IF i <= Len(pw.buffer) THEN pw.buffer[i] ELSE NUL]

(* append at full capacity: a new region of twice the size gets the bytes, *)
(* the old one is zeroed and released.                                      *)
password_grow(pw) == [pw EXCEPT !.buffer_len = 2 * pw.buffer_len]

(* Variant of password_append: a byte that does not fit is dropped. *)
password_append_drops_when_full(pw, b) ==
    IF pw.len = pw.buffer_len THEN pw
    ELSE [pw EXCEPT !.buffer = store_cell(pw.buffer, pw.len + 1, b),
                    !.len = pw.len + 1]

(* append: grows the region when len = capacity, then stores the byte. *)
password_append(pw, b) ==
    LET q == IF pw.len = pw.buffer_len THEN password_grow(pw) ELSE pw
    IN [q EXCEPT !.buffer = store_cell(q.buffer, q.len + 1, b),
                 !.len = q.len + 1]

(* remove_last: nothing for an empty buffer; else the vacated byte is      *)
(* zeroed at once.                                                          *)
password_remove_last(pw) ==
    IF pw.len = 0 THEN pw
    ELSE [pw EXCEPT !.buffer = zero_cells(pw.buffer, pw.len, pw.len),
                    !.len = pw.len - 1]

(* Variant of password_clear: the length is reset, the bytes stay. *)
password_clear_len_only(pw) == [pw EXCEPT !.len = 0]

(* clear: the len bytes are zeroed, len = 0, the capacity stays. *)
password_clear(pw) ==
    [pw EXCEPT !.buffer = zero_cells(pw.buffer, 1, pw.len), !.len = 0]

(* password_buffer_create, pipe(sigusr_fds), fcntl(O_NONBLOCK) and         *)
(* wl_display_connect: each may fail, and each failure returns             *)
(* EXIT_FAILURE.                                                            *)
main_setup ==
    /\ pc \in {"password_create", "pipe", "fcntl", "connect"}
    /\ \E ok \in BOOLEAN :
         IF ok
         THEN /\ pc' = CASE pc = "password_create" -> "pipe"
                         [] pc = "pipe" -> "fcntl"
                         [] pc = "fcntl" -> "connect"
                         [] OTHER -> "roundtrip1"
              /\ password' = IF pc = "password_create"
                             THEN password_buffer_create(PASSWORD_BUFFER_LEN)
                             ELSE password
              /\ UNCHANGED exitVars
         ELSE /\ Exit(EXIT_FAILURE, pc)
              /\ UNCHANGED password
    /\ sigusr_nonblock' = IF pc = "fcntl" /\ pc' = "connect"
                           THEN TRUE ELSE sigusr_nonblock
    /\ appended' = appended
    /\ UNCHANGED <<argv, config_line, args_ignore_empty, images, auth_state, input_state,
                   failed_attempts, auth_idle_timer, auth_idle_due, run_display, surfaces,
                   wlVars, commVars, sigusr_pipe, sigusr_handler, ready,
                   histVars>>

(* ------------------------ windowing handlers --------------------------- *)
(* handle_global: binds the interface it knows and leaves the others.      *)
handle_global(g, interface) ==
    IF interface = "wl_compositor" THEN g \cup {"wl_compositor"}
    ELSE IF interface = "wl_subcompositor" THEN g \cup {"wl_subcompositor"}
    ELSE IF interface = "wl_shm" THEN g \cup {"wl_shm"}
    ELSE IF interface = "ext_session_lock_manager_v1"
         THEN g \cup {"ext_session_lock_manager_v1"}
    ELSE g

(* handle_global for a wl_output: a new swaylock_surface joins the list.   *)
handle_global_output(s, o) ==
    [s EXCEPT ![o] = [NoSurface EXCEPT !.listed = TRUE]]

RECURSIVE deliver_globals(_, _)
deliver_globals(g, todo) ==
    IF todo = {} THEN g
    ELSE LET i == CHOOSE x \in todo : TRUE
         IN deliver_globals(handle_global(g, i), todo \ {i})

(* Variant of missing_global: the wl_shm check is left out. *)
missing_global_no_shm(g) ==
    \/ "wl_compositor" \notin g
    \/ "wl_subcompositor" \notin g
    \/ "ext_session_lock_manager_v1" \notin g

(* The four checks of main after the registry roundtrip: some required     *)
(* global was not bound.                                                    *)
missing_global(g) ==
    \/ "wl_compositor" \notin g
    \/ "wl_subcompositor" \notin g
    \/ "wl_shm" \notin g
    \/ "ext_session_lock_manager_v1" \notin g

(* ------------------------------ images --------------------------------- *)
(* strcmp on the output names of the model. *)
strcmp(a, b) ==
    LET rank(n) == CHOOSE i \in 1..Len(ImageOutputNames) :
                       ImageOutputNames[i] = n
    IN IF a = b THEN 0 ELSE IF rank(a) < rank(b) THEN -1 ELSE 1

(* lenient_strcmp: the names of an image and of a surface are separate    *)
(* copies, so the two pointers are equal only when both are NULL.          *)
lenient_strcmp(a, b) ==
    IF a = NULL /\ b = NULL THEN 0
    ELSE IF a = NULL THEN -1
    ELSE IF b = NULL THEN 1
    ELSE strcmp(a, b)

(* load_background_image: NULL when the file cannot be read. *)
load_background_image(path) == IF path \in ReadablePaths THEN path ELSE NULL

(* The list without its element at position i. *)
wl_list_remove(list, i) ==
    [j \in 1..(Len(list) - 1) |-> IF j < i THEN list[j] ELSE list[j + 1]]

(* load_image: the argument is split at the first ':', the image already   *)
(* listed for the same output is removed, and the new image is inserted at *)
(* the head of the list unless its file cannot be loaded.                  *)
load_image(list, arg) ==
    LET output_name == IF arg.output \in {"none", ""} THEN NULL
                       ELSE arg.output
        same == {i \in 1..Len(list) :
                   lenient_strcmp(list[i].output_name, output_name) = 0}
        kept == IF same = {} THEN list
                ELSE wl_list_remove(list,
                         CHOOSE i \in same : \A j \in same : i <= j)
        cairo_surface == load_background_image(arg.path)
    IN IF cairo_surface = NULL THEN kept
       ELSE <<[output_name |-> output_name,
               cairo_surface |-> cairo_surface]>> \o kept

(* Variant of select_image_from: the first default image seen ends the     *)
(* search.                                                                  *)
RECURSIVE select_image_default_ends_search(_, _, _, _)
select_image_default_ends_search(list, i, output_name, default_image) ==
    IF i > Len(list) THEN default_image
    ELSE IF lenient_strcmp(list[i].output_name, output_name) = 0
         THEN list[i].cairo_surface
    ELSE IF list[i].output_name = NULL
         THEN list[i].cairo_surface
    ELSE select_image_default_ends_search(list, i + 1, output_name,
                                          default_image)

(* The loop of select_image from the i-th image on. *)
RECURSIVE select_image_from(_, _, _, _)
select_image_from(list, i, output_name, default_image) ==
    IF i > Len(list) THEN default_image
    ELSE IF lenient_strcmp(list[i].output_name, output_name) = 0
         THEN list[i].cairo_surface
    ELSE IF list[i].output_name = NULL
         THEN select_image_from(list, i + 1, output_name,
                                list[i].cairo_surface)
    ELSE select_image_from(list, i + 1, output_name, default_image)

(* select_image *)
select_image(list, sf) == select_image_from(list, 1, sf.output_name, NULL)

(* handle_wl_output_name *)
handle_wl_output_name(sf, name) == [sf EXCEPT !.output_name = name]

(* create_surface: the lock surface of one output. *)
create_surface(sf) ==
    [sf EXCEPT !.image = select_image(images, sf), !.created = TRUE,
               !.done_seen = FALSE]

(* Variant of damage_surface: the frame is drawn at once, so the surface   *)
(* is clean again when the call returns.                                    *)
damage_surface_renders(sf) ==
    IF ~sf.configured THEN sf
    ELSE [sf EXCEPT !.dirty = FALSE]

(* Variant of damage_surface: a frame callback is requested on every call. *)
damage_surface_always_requests(sf) ==
    IF ~sf.configured THEN sf
    ELSE [sf EXCEPT !.dirty = TRUE, !.frame_pending = TRUE,
                    !.frame_callbacks = @ + 1]

(* damage_surface *)
damage_surface(sf) ==
    IF ~sf.configured THEN sf
    ELSE IF sf.frame_pending THEN [sf EXCEPT !.dirty = TRUE]
    ELSE [sf EXCEPT !.dirty = TRUE, !.frame_pending = TRUE,
                    !.frame_callbacks = @ + 1]

(* damage_state: damage_surface on every surface of the list. *)
damage_state(s) ==
    [o \in Outputs |-> IF s[o].listed THEN damage_surface(s[o]) ELSE s[o]]

(* Variant of surface_frame_handle_done: the callback is destroyed and     *)
(* nothing is drawn.                                                        *)
surface_frame_handle_done_no_render(sf) ==
    [sf EXCEPT !.frame_pending = FALSE, !.frame_callbacks = @ - 1]

(* surface_frame_handle_done *)
surface_frame_handle_done(sf) ==
    LET done == [sf EXCEPT !.frame_pending = FALSE,
                           !.frame_callbacks = @ - 1]
    IN IF done.dirty
       THEN [done EXCEPT !.frame_pending = TRUE, !.frame_callbacks = @ + 1,
                         !.dirty = FALSE]
       ELSE done

(* ext_session_lock_surface_v1_handle_configure *)
handle_configure(sf) == [sf EXCEPT !.configured = TRUE]

(* handle_wl_output_done.  The field done_seen is history: the done event  *)
(* of the output has been delivered and its surface is still not created.  *)
handle_wl_output_done(sf, running) ==
    IF ~sf.created /\ running THEN create_surface(sf)
    ELSE IF ~sf.created THEN [sf EXCEPT !.done_seen = TRUE]
    ELSE sf

(* -------------------- main: registry, lock, surfaces ------------------- *)
(* wl_display_roundtrip after wl_registry_add_listener: every advertised   *)
(* global and the outputs present at start-up reach handle_global.         *)
main_roundtrip1 ==
    /\ pc = "roundtrip1"
    /\ \/ /\ wl_err' = TRUE
          /\ Exit(EXIT_FAILURE, "roundtrip1")
          /\ UNCHANGED <<globals, surfaces>>
       \/ /\ globals' = deliver_globals(globals, advertised)
          /\ \E outs \in SUBSET Outputs :
               surfaces' = [o \in Outputs |->
                              IF o \in outs
                              THEN handle_global_output(surfaces, o)[o]
                              ELSE surfaces[o]]
          /\ pc' = "check_globals"
          /\ UNCHANGED <<exitVars, wl_err>>
    /\ UNCHANGED <<argv, config_line, args_ignore_empty, images, smVars, run_display, advertised,
                   lock_requested, comp_lock, unlock_requests, locked,
                   commVars, sigVars, ready, histVars>>

(* if (!state.compositor) ... if (!state.ext_session_lock_manager_v1) *)
main_check_globals ==
    /\ pc = "check_globals"
    /\ IF missing_global(globals)
       THEN Exit(1, "missing_global")
       ELSE pc' = "lock" /\ UNCHANGED exitVars
    /\ UNCHANGED <<argv, config_line, args_ignore_empty, images, smVars, run_display, surfaces,
                   wlVars, commVars, sigVars, ready, histVars>>

(* ext_session_lock_manager_v1_lock and the listener *)
main_lock ==
    /\ pc = "lock"
    /\ lock_requested' = TRUE
    /\ comp_lock' = "pending"
    /\ pc' = "roundtrip2"
    /\ UNCHANGED <<exitVars, argv, config_line, args_ignore_empty, images, smVars, run_display,
                   surfaces, globals, advertised, wl_err, unlock_requests,
                   locked, commVars, sigVars, ready, histVars>>

(* wl_display_roundtrip after the lock request returns *)
main_roundtrip2 ==
    /\ pc = "roundtrip2"
    /\ \/ /\ wl_err' = TRUE
          /\ Exit(1, "roundtrip2")
       \/ /\ pc' = "create_surfaces"
          /\ UNCHANGED <<exitVars, wl_err>>
    /\ UNCHANGED <<argv, config_line, args_ignore_empty, images, smVars, run_display, surfaces,
                   globals, advertised, lock_requested, comp_lock,
                   unlock_requests, locked, commVars, sigVars, ready,
                   histVars>>

(* wl_list_for_each(surface, &state.surfaces, link) create_surface(surface) *)
main_create_surfaces ==
    /\ pc = "create_surfaces"
    /\ surfaces' = [o \in Outputs |->
                      IF surfaces[o].listed THEN create_surface(surfaces[o])
                      ELSE surfaces[o]]
    /\ pc' = "wait_locked"
    /\ UNCHANGED <<exitVars, argv, config_line, args_ignore_empty, images, smVars, run_display,
                   wlVars, commVars, sigVars, ready, histVars>>

(* Variant of main_wait_locked: main does not wait for the locked event. *)
main_wait_locked_no_wait ==
    /\ pc = "wait_locked"
    /\ pc' = "register"
    /\ UNCHANGED <<exitVars, argv, config_line, args_ignore_empty, images, smVars, run_display,
                   surfaces, wlVars, commVars, sigVars, ready, histVars>>

(* while (!state.locked): the loop test *)
main_wait_locked ==
    /\ pc = "wait_locked"
    /\ pc' = IF locked THEN "register" ELSE "wait_dispatch"
    /\ UNCHANGED <<exitVars, argv, config_line, args_ignore_empty, images, smVars, run_display,
                   surfaces, wlVars, commVars, sigVars, ready, histVars>>

(* wl_display_dispatch in the wait loop returns; < 0 is return 2 *)
main_wait_dispatch ==
    /\ pc = "wait_dispatch"
    /\ \/ /\ wl_err' = TRUE
          /\ Exit(2, "wait_dispatch")
       \/ /\ pc' = "wait_locked"
          /\ UNCHANGED <<exitVars, wl_err>>
    /\ UNCHANGED <<argv, config_line, args_ignore_empty, images, smVars, run_display, surfaces,
                   globals, advertised, lock_requested, comp_lock,
                   unlock_requests, locked, commVars, sigVars, ready,
                   histVars>>

(* the three loop_add_fd calls, sigaction(SIGUSR1) and run_display = true *)
main_register ==
    /\ pc = "register"
    /\ sigusr_handler' = TRUE
    /\ run_display' = TRUE
    /\ entered_loop' = TRUE
    /\ pc' = "loop_top"
    /\ UNCHANGED <<exitVars, argv, config_line, args_ignore_empty, images, smVars, surfaces,
                   wlVars, commVars, sigusr_pipe, sigusr_nonblock, ready,
                   stop_cause>>

(* ----------------------- comm pipes and worker ------------------------- *)
(* read_comm_reply: one byte is read; only the byte 1 is success, a closed *)
(* channel or a short read is failure.                                      *)
comm_read_value == IF comm_rep # <<>> THEN Head(comm_rep) ELSE
                       [byte |-> EOF, check |-> FALSE]
read_comm_reply == comm_read_value.byte = VERDICT_OK

(* The reply fd polls readable: a byte is queued, or the worker is gone.   *)
comm_readable == comm_rep # <<>> \/ worker = "dead"

(* The worker's credential check of one submitted secret. *)
worker_check(secret) == secret = CorrectPw

(* The worker takes one Submit, checks it and writes one Verdict byte.  A  *)
(* faulty worker may write a byte that is neither 0 nor 1 for a failure.   *)
worker_step ==
    /\ worker = "alive"
    /\ comm_req # <<>>
    /\ LET ok == worker_check(Head(comm_req))
       IN \E b \in (IF ok THEN {VERDICT_OK} ELSE {0} \cup MalformedBytes) :
            comm_rep' = Append(comm_rep, [byte |-> b, check |-> ok])
    /\ comm_req' = Tail(comm_req)
    /\ UNCHANGED <<pc, exitVars, argv, config_line, args_ignore_empty, images, smVars,
                   run_display, surfaces, wlVars, worker, sigVars, ready,
                   histVars>>

(* The worker exits (crash, kill): both pipe ends it held are closed. *)
worker_exit ==
    /\ worker = "alive"
    /\ pc # "done"
    /\ worker' = "dead"
    /\ UNCHANGED <<pc, exitVars, argv, config_line, args_ignore_empty, images, smVars,
                   run_display, surfaces, wlVars, comm_req, comm_rep,
                   sigVars, ready, histVars>>

(* ------------------------------ signal --------------------------------- *)
(* A handler that does the work of term_in itself, in signal context. *)
do_sigusr_stops_loop ==
    /\ sigusr_handler
    /\ pc # "done"
    /\ sigusr_pipe < MaxWake
    /\ sigusr_pipe' = sigusr_pipe + 1
    /\ run_display' = FALSE
    /\ UNCHANGED <<pc, exitVars, argv, config_line, args_ignore_empty, images, smVars,
                   surfaces, wlVars, commVars, sigusr_handler,
                   sigusr_nonblock, ready, histVars>>

(* do_sigusr: write(sigusr_fds[1], "1", 1) and nothing else.  MaxWake is   *)
(* the room in the pipe: with the pipe full a non-blocking write fails and *)
(* the handler returns, a blocking write never returns.                    *)
do_sigusr ==
    /\ sigusr_handler
    /\ pc \notin {"done", "blocked"}
    /\ sigusr_pipe < MaxWake \/ ~sigusr_nonblock
    /\ IF sigusr_pipe < MaxWake
       THEN sigusr_pipe' = sigusr_pipe + 1 /\ pc' = pc
       ELSE sigusr_pipe' = sigusr_pipe /\ pc' = "blocked"
    /\ UNCHANGED <<exitVars, argv, config_line, args_ignore_empty, images, smVars,
                   run_display, surfaces, wlVars, commVars, sigusr_handler,
                   sigusr_nonblock, ready, histVars>>

(* ----------------------- display event dispatch ------------------------ *)
(* The parent is inside wl_display_dispatch or wl_display_roundtrip with   *)
(* the listeners installed, so the compositor's events reach the handlers. *)
dispatching ==
    /\ ~wl_err
    /\ \/ pc \in {"roundtrip2", "wait_dispatch", "final_roundtrip"}
       \/ pc = "dispatch" /\ ready # <<>> /\ Head(ready) = "display_in"

(* ext_session_lock_v1_handle_locked *)
ext_session_lock_v1_handle_locked ==
    /\ dispatching
    /\ comp_lock = "pending"
    /\ comp_lock' = "locked"
    /\ locked' = TRUE
    /\ UNCHANGED <<pc, exitVars, argv, config_line, args_ignore_empty, images, smVars,
                   run_display, surfaces, globals, advertised,
                   lock_requested, wl_err, unlock_requests, commVars,
                   sigVars, ready, histVars>>

(* Variant of ext_session_lock_v1_handle_finished: the handler only logs. *)
ext_session_lock_v1_handle_finished_log_only ==
    /\ dispatching
    /\ comp_lock = "pending"
    /\ comp_lock' = "finished"
    /\ UNCHANGED <<pc, exitVars, argv, config_line, args_ignore_empty, images, smVars,
                   run_display, surfaces, globals, advertised,
                   lock_requested, wl_err, unlock_requests, locked, commVars,
                   sigVars, ready, histVars>>

(* ext_session_lock_v1_handle_finished: exit(2).  The compositor answers a *)
(* lock request with locked or with finished.                               *)
ext_session_lock_v1_handle_finished ==
    /\ dispatching
    /\ comp_lock = "pending"
    /\ comp_lock' = "finished"
    /\ Exit(2, "finished")
    /\ UNCHANGED <<argv, config_line, args_ignore_empty, images, smVars, run_display, surfaces,
                   globals, advertised, lock_requested, wl_err,
                   unlock_requests, locked, commVars, sigVars, ready,
                   histVars>>

(* One event for one output: a new wl_output global, wl_output.done, the   *)
(* lock surface's configure, or the done of a frame callback.               *)
wl_output_event ==
    /\ dispatching
    /\ \E o \in Outputs :
         \/ /\ ~surfaces[o].listed
            /\ surfaces' = handle_global_output(surfaces, o)
         \/ /\ surfaces[o].listed
            /\ surfaces' = [surfaces EXCEPT
                   ![o] = handle_wl_output_done(surfaces[o], run_display)]
         \/ /\ surfaces[o].created
            /\ surfaces' = [surfaces EXCEPT
                   ![o] = handle_configure(surfaces[o])]
         \/ /\ surfaces[o].frame_callbacks > 0
            /\ surfaces' = [surfaces EXCEPT
                   ![o] = surface_frame_handle_done(surfaces[o])]
    /\ UNCHANGED <<pc, exitVars, argv, config_line, args_ignore_empty, images, smVars,
                   run_display, wlVars, commVars, sigVars, ready, histVars>>

(* --------------------- keystrokes (password handling) ------------------ *)
(* write_comm_request: length and bytes go to the worker, then the buffer  *)
(* is zeroed.  The write fails when the worker is gone.                     *)
write_comm_request_ok == worker = "alive"

(* Variant of submit_password: no test of auth_state. *)
submit_password_no_validating_test ==
    IF args_ignore_empty /\ password.len = 0
    THEN UNCHANGED <<pc, exitVars, password, appended, auth_state, comm_req, surfaces>>
    ELSE /\ password' = password_clear(password)
         /\ appended' = 0
         /\ IF write_comm_request_ok
            THEN /\ comm_req' = Append(comm_req, password_bytes(password))
                 /\ auth_state' = "VALIDATING"
                 /\ surfaces' = damage_state(surfaces)
                 /\ UNCHANGED <<pc, exitVars>>
            ELSE /\ Exit(EXIT_LOCK_FAILED, "comm_write")
                 /\ UNCHANGED <<comm_req, auth_state, surfaces>>

(* Submit: dropped while Validating, dropped for an empty buffer under the *)
(* ignore-empty policy; else the Submit is sent and auth_state becomes     *)
(* Validating.  A failed write is fatal.                                    *)
submit_password ==
    IF auth_state = "VALIDATING" \/ (args_ignore_empty /\ password.len = 0)
    THEN UNCHANGED <<pc, exitVars, password, appended, auth_state, comm_req, surfaces>>
    ELSE /\ password' = password_clear(password)
         /\ appended' = 0
         /\ IF write_comm_request_ok
            THEN /\ comm_req' = Append(comm_req, password_bytes(password))
                 /\ auth_state' = "VALIDATING"
                 /\ surfaces' = damage_state(surfaces)
                 /\ UNCHANGED <<pc, exitVars>>
            ELSE /\ Exit(EXIT_LOCK_FAILED, "comm_write")
                 /\ UNCHANGED <<comm_req, auth_state, surfaces>>

(* swaylock_handle_key for the key classes of the state machine. *)
swaylock_handle_key(k) ==
    CASE k = "Return" ->
           /\ submit_password
           /\ UNCHANGED input_state
      [] k = "BackSpace" ->
           /\ password' = password_remove_last(password)
           /\ appended' = (IF appended = 0 THEN 0 ELSE appended - 1)
           /\ input_state' = "BACKSPACE"
           /\ surfaces' = damage_state(surfaces)
           /\ UNCHANGED <<pc, exitVars, auth_state, comm_req>>
      [] k = "Escape" ->
           /\ password' = password_clear(password)
           /\ appended' = 0
           /\ input_state' = "CLEAR"
           /\ auth_state' = IF auth_state = "INVALID" THEN "IDLE"
                            ELSE auth_state
           /\ surfaces' = damage_state(surfaces)
           /\ UNCHANGED <<pc, exitVars, comm_req>>
      [] OTHER ->
           /\ appended < MaxPwLen
           /\ password' = password_append(password, k)
           /\ appended' = appended + 1
           /\ input_state' = "LETTER"
           /\ surfaces' = damage_state(surfaces)
           /\ UNCHANGED <<pc, exitVars, auth_state, comm_req>>

(* A configured lock surface exists, so the keyboard can have focus. *)
has_focus == \E o \in Outputs : surfaces[o].created /\ surfaces[o].configured

(* A key event reaches the keyboard listener. *)
wl_key ==
    /\ dispatching
    /\ has_focus
    /\ \E k \in Keys : swaylock_handle_key(k)
    /\ UNCHANGED <<argv, config_line, args_ignore_empty, images, failed_attempts,
                   auth_idle_timer, auth_idle_due, run_display, wlVars, worker, comm_rep,
                   sigVars, ready, histVars>>

(* ----------------------------- reactor --------------------------------- *)
(* What wl_display_flush can return: the bytes were written, -1 with errno *)
(* EAGAIN, or -1 with another errno.                                        *)
FlushResults == {"flushed", "EAGAIN", "error"}

(* Variant of main_loop_top: the loop goes to loop_poll without the flush. *)
main_loop_top_no_flush ==
    /\ pc = "loop_top"
    /\ pc' = IF run_display THEN "poll" ELSE "unlock"
    /\ UNCHANGED <<exitVars, argv, config_line, args_ignore_empty, images, smVars, run_display,
                   surfaces, wlVars, commVars, sigVars, ready, histVars>>

(* Variant of main_loop_top: the loop does not test run_display. *)
main_loop_top_ignores_flag ==
    /\ pc = "loop_top"
    /\ pc' = "flush"
    /\ UNCHANGED <<exitVars, argv, config_line, args_ignore_empty, images, smVars, run_display,
                   surfaces, wlVars, commVars, sigVars, ready, histVars>>

(* while (state.run_display): the loop test *)
main_loop_top ==
    /\ pc = "loop_top"
    /\ pc' = IF run_display THEN "flush" ELSE "unlock"
    /\ UNCHANGED <<exitVars, argv, config_line, args_ignore_empty, images, smVars, run_display,
                   surfaces, wlVars, commVars, sigVars, ready, histVars>>

(* wl_display_flush: success and EAGAIN go on to loop_poll, another error  *)
(* breaks out of the loop.                                                  *)
main_flush ==
    /\ pc = "flush"
    /\ \E result \in FlushResults :
         IF result \in {"flushed", "EAGAIN"}
         THEN /\ pc' = "poll"
              /\ UNCHANGED <<wl_err, stop_cause>>
         ELSE /\ wl_err' = TRUE
              /\ stop_cause' = stop_cause \cup {"flush"}
              /\ pc' = "unlock"
    /\ UNCHANGED <<exitVars, argv, config_line, args_ignore_empty, images, smVars, run_display,
                   surfaces, globals, advertised, lock_requested, comp_lock,
                   unlock_requests, locked, commVars, sigVars, ready,
                   entered_loop>>

(* loop_poll: waits until a registered fd is readable or a timer is due;   *)
(* the ready fds get their callbacks in registration order, then the       *)
(* timers run.  The delay of an armed timer may elapse during the wait.    *)
loop_poll ==
    /\ pc = "poll"
    /\ \E d \in BOOLEAN :
         LET fds == (IF d THEN <<"display_in">> ELSE <<>>)
                    \o (IF comm_readable THEN <<"comm_in">> ELSE <<>>)
                    \o (IF sigusr_pipe > 0 THEN <<"term_in">> ELSE <<>>)
         IN /\ fds # <<>> \/ auth_idle_timer \/ input_state # "IDLE"
            /\ ready' = fds
    /\ auth_idle_due' \in (IF auth_idle_timer THEN {auth_idle_due, TRUE}
                            ELSE {FALSE})
    /\ pc' = "dispatch"
    /\ UNCHANGED <<exitVars, argv, config_line, args_ignore_empty, images, password,
                   appended, auth_state, input_state, failed_attempts,
                   auth_idle_timer, run_display, surfaces, wlVars, commVars,
                   sigVars, histVars>>

(* display_in: wl_display_dispatch returns; -1 clears run_display. *)
display_in ==
    /\ pc = "dispatch" /\ ready # <<>> /\ Head(ready) = "display_in"
    /\ \/ UNCHANGED <<run_display, wl_err, stop_cause>>
       \/ /\ run_display' = FALSE
          /\ wl_err' = TRUE
          /\ stop_cause' = stop_cause \cup {"display"}
    /\ ready' = Tail(ready)
    /\ UNCHANGED <<pc, exitVars, argv, config_line, args_ignore_empty, images, smVars, surfaces,
                   globals, advertised, lock_requested, comp_lock,
                   unlock_requests, locked, commVars, sigVars, entered_loop>>

(* schedule_auth_idle: the idle timer is (re)armed, its delay starts anew. *)
schedule_auth_idle == auth_idle_timer' = TRUE /\ auth_idle_due' = FALSE

(* Variant of comm_in_success: the count of failures is reset on success. *)
comm_in_success_resets_attempts ==
    /\ run_display' = FALSE
    /\ stop_cause' = stop_cause \cup {"verdict"}
    /\ failed_attempts' = 0
    /\ UNCHANGED <<auth_state, auth_idle_timer, auth_idle_due, surfaces>>

(* comm_in, the branch taken for a successful reply: the loop is told to  *)
(* stop.                                                                    *)
comm_in_success ==
    /\ run_display' = FALSE
    /\ stop_cause' = stop_cause \cup {"verdict"}
    /\ UNCHANGED <<auth_state, auth_idle_timer, auth_idle_due, failed_attempts, surfaces>>

(* Variant of comm_in_failure: the failure branch also clears run_display. *)
comm_in_failure_stops_loop ==
    /\ failed_attempts < MaxFailedAttempts
    /\ auth_state' = "INVALID"
    /\ schedule_auth_idle
    /\ failed_attempts' = failed_attempts + 1
    /\ surfaces' = damage_state(surfaces)
    /\ run_display' = FALSE
    /\ UNCHANGED stop_cause

(* Variant of comm_in_failure: schedule_auth_idle is not called. *)
comm_in_failure_no_timer ==
    /\ failed_attempts < MaxFailedAttempts
    /\ auth_state' = "INVALID"
    /\ failed_attempts' = failed_attempts + 1
    /\ surfaces' = damage_state(surfaces)
    /\ UNCHANGED <<auth_idle_timer, auth_idle_due, run_display, stop_cause>>

(* comm_in, the else branch. *)
comm_in_failure ==
    /\ failed_attempts < MaxFailedAttempts
    /\ auth_state' = "INVALID"
    /\ schedule_auth_idle
    /\ failed_attempts' = failed_attempts + 1
    /\ surfaces' = damage_state(surfaces)
    /\ UNCHANGED <<run_display, stop_cause>>

(* comm_in with the result of read_comm_reply passed in. *)
comm_in_with(reply_ok) ==
    /\ pc = "dispatch" /\ ready # <<>> /\ Head(ready) = "comm_in"
    /\ comm_rep' = IF comm_rep # <<>> THEN Tail(comm_rep) ELSE comm_rep
    /\ IF reply_ok THEN comm_in_success ELSE comm_in_failure
    /\ ready' = Tail(ready)
    /\ UNCHANGED <<pc, exitVars, argv, config_line, args_ignore_empty, images, password, appended,
                   input_state, wlVars, worker, comm_req, sigVars,
                   entered_loop>>

(* Variant of comm_in: any byte that could be read counts as success. *)
comm_in_any_byte == comm_in_with(comm_rep # <<>>)

(* comm_in *)
comm_in == comm_in_with(read_comm_reply)

(* Variant of term_in: run_display is left alone. *)
term_in_no_stop ==
    /\ pc = "dispatch" /\ ready # <<>> /\ Head(ready) = "term_in"
    /\ stop_cause' = stop_cause \cup {"wake"}
    /\ ready' = Tail(ready)
    /\ UNCHANGED <<pc, exitVars, argv, config_line, args_ignore_empty, images, smVars, surfaces,
                   run_display, wlVars, commVars, sigVars, entered_loop>>

(* term_in *)
term_in ==
    /\ pc = "dispatch" /\ ready # <<>> /\ Head(ready) = "term_in"
    /\ run_display' = FALSE
    /\ stop_cause' = stop_cause \cup {"wake"}
    /\ ready' = Tail(ready)
    /\ UNCHANGED <<pc, exitVars, argv, config_line, args_ignore_empty, images, smVars, surfaces,
                   wlVars, commVars, sigVars, entered_loop>>

(* loop_poll, after the fd callbacks: the timers that are due run next. *)
loop_poll_timers ==
    /\ pc = "dispatch" /\ ready = <<>>
    /\ pc' = "timers"
    /\ UNCHANGED <<exitVars, argv, config_line, args_ignore_empty, images, smVars, run_display,
                   surfaces, wlVars, commVars, sigVars, ready, histVars>>

(* set_auth_idle: the timer armed by schedule_auth_idle expires. *)
set_auth_idle ==
    /\ pc = "timers"
    /\ auth_idle_timer /\ auth_idle_due
    /\ auth_idle_timer' = FALSE
    /\ auth_idle_due' = FALSE
    /\ auth_state' = "IDLE"
    /\ surfaces' = damage_state(surfaces)
    /\ UNCHANGED <<pc, exitVars, argv, config_line, args_ignore_empty, images, password, appended,
                   input_state, failed_attempts, run_display, wlVars,
                   commVars, sigVars, ready, histVars>>

(* set_input_idle: the keystroke indication decays to Idle. *)
set_input_idle ==
    /\ pc = "timers"
    /\ input_state # "IDLE"
    /\ input_state' = "IDLE"
    /\ surfaces' = damage_state(surfaces)
    /\ UNCHANGED <<pc, exitVars, argv, config_line, args_ignore_empty, images, password, appended,
                   auth_state, failed_attempts, auth_idle_timer, auth_idle_due, run_display,
                   wlVars, commVars, sigVars, ready, histVars>>

(* loop_poll returns to the loop of main, every due timer having run. *)
loop_poll_return ==
    /\ pc = "timers"
    /\ ~auth_idle_due
    /\ pc' = "loop_top"
    /\ UNCHANGED <<exitVars, argv, config_line, args_ignore_empty, images, smVars, run_display,
                   surfaces, wlVars, commVars, sigVars, ready, histVars>>

(* ------------------------------ teardown ------------------------------- *)
(* ext_session_lock_v1_unlock_and_destroy *)
main_unlock ==
    /\ pc = "unlock"
    /\ unlock_requests' = unlock_requests + 1
    /\ comp_lock' = IF ~wl_err /\ comp_lock = "locked" THEN "unlocked"
                    ELSE comp_lock
    /\ pc' = "final_roundtrip"
    /\ UNCHANGED <<exitVars, argv, config_line, args_ignore_empty, images, smVars, run_display,
                   surfaces, globals, advertised, lock_requested, wl_err,
                   locked, commVars, sigVars, ready, histVars>>

(* wl_display_roundtrip returns, then return 0 *)
main_return ==
    /\ pc = "final_roundtrip"
    /\ Exit(0, "return")
    /\ UNCHANGED <<argv, config_line, args_ignore_empty, images, smVars, run_display, surfaces,
                   wlVars, commVars, sigVars, ready, histVars>>

(* ----------------------- the Secret Buffer alone ----------------------- *)
(* The operations of the Secret Buffer applied in any order to a buffer    *)
(* created with a small capacity, so that appends reach the capacity.      *)
restVars == <<pc, exit_code, exit_cause, argv, config_line,
              args_ignore_empty, images, auth_state, input_state, failed_attempts,
              run_display, locked, globals, advertised, surfaces,
              lock_requested, comp_lock, wl_err, unlock_requests, worker,
              comm_req, comm_rep, sigusr_pipe, sigusr_handler,
              sigusr_nonblock, auth_idle_timer, auth_idle_due, ready, entered_loop,
              stop_cause>>

BufInit ==
    /\ pc = "password_ops"
    /\ exit_code = -1
    /\ exit_cause = "none"
    /\ argv = "none"
    /\ config_line = "none"
    /\ args_ignore_empty = TRUE
    /\ images = <<>>
    /\ \E size \in 1..MaxInitialCapacity :
         password = password_buffer_create(size)
    /\ appended = 0
    /\ auth_state = "IDLE"
    /\ input_state = "IDLE"
    /\ failed_attempts = 0
    /\ run_display = FALSE
    /\ locked = FALSE
    /\ globals = {}
    /\ advertised = {}
    /\ surfaces = [o \in Outputs |-> NoSurface]
    /\ lock_requested = FALSE
    /\ comp_lock = "none"
    /\ wl_err = FALSE
    /\ unlock_requests = 0
    /\ worker = "none"
    /\ comm_req = <<>>
    /\ comm_rep = <<>>
    /\ sigusr_pipe = 0
    /\ sigusr_handler = FALSE
    /\ sigusr_nonblock = FALSE
    /\ auth_idle_timer = FALSE
    /\ auth_idle_due = FALSE
    /\ ready = <<>>
    /\ entered_loop = FALSE
    /\ stop_cause = {}

buf_append ==
    /\ appended < MaxBufLen
    /\ \E b \in BufBytes : password' = password_append(password, b)
    /\ appended' = appended + 1
    /\ UNCHANGED restVars

buf_remove_last ==
    /\ password' = password_remove_last(password)
    /\ appended' = (IF appended = 0 THEN 0 ELSE appended - 1)
    /\ UNCHANGED restVars

buf_clear ==
    /\ password' = password_clear(password)
    /\ appended' = 0
    /\ UNCHANGED restVars

BufNext == buf_append \/ buf_remove_last \/ buf_clear

BufSpec == BufInit /\ [][BufNext]_vars

(* --------------------------- image selection --------------------------- *)
(* --image options are parsed into state.images, the outputs get their     *)
(* names, and create_surface selects the image of each surface.            *)
imgRestVars == <<pc, exit_code, exit_cause, argv, config_line,
                 args_ignore_empty, smVars, run_display, wlVars, commVars,
                 sigVars, ready, histVars>>

ImgInit ==
    /\ pc = "image_ops"
    /\ exit_code = -1
    /\ exit_cause = "none"
    /\ argv = "none"
    /\ config_line = "none"
    /\ args_ignore_empty = TRUE
    /\ images = <<>>
    /\ password = NoPassword
    /\ appended = 0
    /\ auth_state = "IDLE"
    /\ input_state = "IDLE"
    /\ failed_attempts = 0
    /\ run_display = FALSE
    /\ locked = FALSE
    /\ globals = {}
    /\ advertised = {}
    /\ surfaces = [o \in Outputs |-> handle_global_output(
                                        [p \in Outputs |-> NoSurface], o)[o]]
    /\ lock_requested = FALSE
    /\ comp_lock = "none"
    /\ wl_err = FALSE
    /\ unlock_requests = 0
    /\ worker = "none"
    /\ comm_req = <<>>
    /\ comm_rep = <<>>
    /\ sigusr_pipe = 0
    /\ sigusr_handler = FALSE
    /\ sigusr_nonblock = FALSE
    /\ auth_idle_timer = FALSE
    /\ auth_idle_due = FALSE
    /\ ready = <<>>
    /\ entered_loop = FALSE
    /\ stop_cause = {}

(* parse_options, case 'i': load_image(optarg, state), before any surface  *)
(* exists.                                                                  *)
img_load_image ==
    /\ \A o \in Outputs : ~surfaces[o].created
    /\ \E arg \in ImageArgs : images' = load_image(images, arg)
    /\ UNCHANGED <<surfaces, imgRestVars>>

(* wl_output.name for an output whose surface is not yet created. *)
img_output_name ==
    /\ \E o \in Outputs :
         /\ surfaces[o].listed /\ ~surfaces[o].created
         /\ surfaces' = [surfaces EXCEPT
                ![o] = handle_wl_output_name(surfaces[o], o)]
    /\ UNCHANGED <<images, imgRestVars>>

(* create_surface for a listed output *)
img_create_surface ==
    /\ \E o \in Outputs :
         /\ surfaces[o].listed /\ ~surfaces[o].created
         /\ surfaces' = [surfaces EXCEPT ![o] = create_surface(surfaces[o])]
    /\ UNCHANGED <<images, imgRestVars>>

ImgNext == img_load_image \/ img_output_name \/ img_create_surface

ImgSpec == ImgInit /\ [][ImgNext]_vars

(* ------------------------------- system -------------------------------- *)
Next ==
    \/ main_init
    \/ main_parse_early
    \/ main_load_config
    \/ main_parse_cli
    \/ main_setup
    \/ main_roundtrip1
    \/ main_check_globals
    \/ main_lock
    \/ main_roundtrip2
    \/ main_create_surfaces
    \/ main_wait_locked
    \/ main_wait_dispatch
    \/ main_register
    \/ main_loop_top
    \/ main_flush
    \/ loop_poll
    \/ display_in
    \/ comm_in
    \/ term_in
    \/ loop_poll_timers
    \/ set_auth_idle
    \/ set_input_idle
    \/ loop_poll_return
    \/ main_unlock
    \/ main_return
    \/ ext_session_lock_v1_handle_locked
    \/ ext_session_lock_v1_handle_finished
    \/ wl_output_event
    \/ wl_key
    \/ worker_step
    \/ worker_exit
    \/ do_sigusr

Spec == Init /\ [][Next]_vars

(* The steps of the reactor loop of main and of loop_poll. *)
ReactorStep ==
    \/ main_loop_top
    \/ main_flush
    \/ loop_poll
    \/ display_in
    \/ comm_in
    \/ term_in
    \/ loop_poll_timers
    \/ set_auth_idle
    \/ set_input_idle
    \/ loop_poll_return

(* The delay of the armed idle timer elapses during a wait of loop_poll. *)
TimerElapses == loop_poll /\ auth_idle_due'

(* The parent keeps running its loop while it has a step to take, and the  *)
(* delay of a timer that stays armed elapses after finitely many polls.    *)
FairSpec == Spec /\ WF_vars(ReactorStep) /\ SF_vars(TimerElapses)

(* The compositor sends the done event of an outstanding frame callback:   *)
(* the display fd is readable when loop_poll returns.                      *)
FrameDoneSent ==
    /\ \E o \in Outputs : surfaces[o].frame_callbacks > 0
    /\ loop_poll
    /\ ready' # <<>> /\ Head(ready') = "display_in"

(* wl_display_dispatch hands the done event to surface_frame_handle_done. *)
FrameDone ==
    /\ wl_output_event
    /\ \E o \in Outputs :
         /\ surfaces[o].frame_callbacks > 0
         /\ surfaces' = [surfaces EXCEPT
                ![o] = surface_frame_handle_done(surfaces[o])]

(* The reactor loop keeps running and every requested frame-done event is  *)
(* delivered.                                                               *)
RedrawFairSpec ==
    Spec /\ WF_vars(ReactorStep) /\ SF_vars(FrameDoneSent) /\ SF_vars(FrameDone)

TypeOK ==
    /\ auth_state \in {"IDLE", "VALIDATING", "INVALID"}
    /\ input_state \in {"IDLE", "LETTER", "BACKSPACE", "CLEAR"}
    /\ failed_attempts \in 0..MaxFailedAttempts
    /\ password.len <= MaxPwLen
    /\ sigusr_pipe \in 0..MaxWake
    /\ sigusr_nonblock \in BOOLEAN
    /\ auth_idle_due \in BOOLEAN
    /\ unlock_requests \in 0..1

(* ============================ properties =============================== *)
(* Steps and states the properties speak about. *)
CommInStep ==
    /\ pc = "dispatch" /\ ready # <<>> /\ Head(ready) = "comm_in"
    /\ ready' = Tail(ready)
TermInStep ==
    /\ pc = "dispatch" /\ ready # <<>> /\ Head(ready) = "term_in"
    /\ ready' = Tail(ready)
ReturnKeyStep ==
    /\ dispatching
    /\ has_focus
    /\ swaylock_handle_key("Return")
KeyCanArrive == dispatching /\ has_focus
SubmitWritten ==
    /\ comm_req' # comm_req
    /\ ~(comm_req # <<>> /\ comm_req' = Tail(comm_req))
DisplayFault == stop_cause \cap {"display", "flush"} # {}

(* C1, as claimed: the unlock request is issued only after a Verdict with  *)
(* ok = true has been read by comm_in; no signal leads to it.  Runs that   *)
(* end in a display fault are left aside here (they are the case of C3).   *)
C1_UnlockOnlyAfterOkVerdict ==
    (unlock_requests > 0 /\ ~DisplayFault) => "verdict" \in stop_cause

(* C1, amended: the unlock request is issued only after the reactor loop   *)
(* was entered and stopped by an ok Verdict read in comm_in, by a wake     *)
(* byte dispatched to term_in, or by a display dispatch or flush failure;  *)
(* keystrokes, failed verdicts and timers never lead to it, and it is      *)
(* issued at most once.                                                     *)
C1_UnlockOnlyAfterLoopStopped ==
    /\ unlock_requests \in {0, 1}
    /\ unlock_requests > 0 =>
         /\ entered_loop
         /\ stop_cause # {}
         /\ stop_cause \subseteq {"verdict", "wake", "display", "flush"}
C1_Witness ==
    unlock_requests = 1 /\ stop_cause = {"verdict"} /\ failed_attempts = 1

(* C2: no Submit is written to the worker while auth_state = Validating,   *)
(* and a Submit keystroke handled while Validating changes nothing.        *)
C2_NoSubmitWhileValidating ==
    [][/\ (auth_state = "VALIDATING" => ~SubmitWritten)
       /\ (ReturnKeyStep /\ auth_state = "VALIDATING" =>
             UNCHANGED <<pc, comm_req, smVars, surfaces>>)]_vars
C2_Witness ==
    /\ KeyCanArrive
    /\ auth_state = "VALIDATING"
    /\ password.len > 0
    /\ worker = "alive"

(* C3: after a display fault (dispatch returns -1 in display_in, or the    *)
(* flush fails) has ended the loop, no unlock request is issued.           *)
C3_NoUnlockAfterDisplayFault ==
    (DisplayFault /\ stop_cause \subseteq {"display", "flush"}) =>
        unlock_requests = 0

(* C4: comm_in treats the attempt as success (clears run_display) exactly  *)
(* when the worker's check succeeded and the byte read is 1; byte 0, any   *)
(* other byte and a closed channel are failures.  The worker writes the    *)
(* byte 1 only for a successful check.                                      *)
C4_SuccessIffCheckedOne ==
    [][CommInStep =>
         LET ok == /\ comm_rep # <<>>
                   /\ Head(comm_rep).byte = 1
                   /\ Head(comm_rep).check
         IN /\ run_display' = (run_display /\ ~ok)
            /\ ("verdict" \in stop_cause') = ("verdict" \in stop_cause \/ ok)
            /\ \A i \in 1..Len(comm_rep) :
                 (comm_rep[i].byte = 1) = comm_rep[i].check]_vars
C4_Witness ==
    /\ stop_cause = {"verdict"}
    /\ ~run_display
    /\ pc = "dispatch"
    /\ failed_attempts = 1

(* C5: when a Submit is outstanding and the worker has exited, comm_in     *)
(* reads the closed channel and the parent leaves the reactor loop.        *)
C5_ClosedChannelStopsLoop ==
    [][(/\ CommInStep
        /\ auth_state = "VALIDATING"
        /\ worker = "dead"
        /\ comm_rep = <<>>) => run_display' = FALSE]_vars

(* A Verdict byte that is not 1 is at the head of the reply pipe. *)
FailedVerdictQueued == comm_rep # <<>> /\ Head(comm_rep).byte # 1

C7_EmptySubmitDropped ==
    [][(ReturnKeyStep /\ password.len = 0) =>
         /\ args_ignore_empty
         /\ UNCHANGED <<pc, comm_req, auth_state, input_state,
                        failed_attempts, password>>]_vars
C7_Witness ==
    /\ KeyCanArrive
    /\ pc = "dispatch"
    /\ password.len = 0
    /\ args_ignore_empty
    /\ auth_state = "IDLE"
    /\ input_state = "LETTER"
    /\ worker = "alive"

(* C8: a wake byte readable when loop_poll starts puts term_in among the   *)
(* callbacks of that iteration; once term_in has run, run_display is false *)
(* and no further flush or poll starts; the loop test then goes to the     *)
(* unlock request, whatever the keystrokes and verdicts.                    *)
C8_WakeStopsLoop ==
    /\ []("wake" \in stop_cause =>
             ~run_display /\ pc \notin {"flush", "poll"})
    /\ [][/\ (pc = "poll" /\ pc' = "dispatch" /\ sigusr_pipe > 0) =>
               \E i \in 1..Len(ready') : ready'[i] = "term_in"
          /\ TermInStep => ~run_display' /\ "wake" \in stop_cause'
          /\ (pc = "loop_top" /\ ~run_display) => pc' \in {pc, "unlock"}
          /\ (pc = "unlock" /\ pc' # pc) =>
               unlock_requests' = unlock_requests + 1]_vars
C8_Witness ==
    /\ stop_cause = {"wake"}
    /\ unlock_requests = 1
    /\ exit_code = 0
    /\ password.len = 0
    /\ auth_state = "IDLE"
    /\ failed_attempts = 0
    /\ comm_req = <<>> /\ comm_rep = <<>>

(* C9: when the compositor answers the lock request with finished, or the  *)
(* dispatch in the wait for locked fails, the process exits with code 2,   *)
(* never enters the reactor loop and issues no unlock request.             *)
C9_LockFailureExits2 ==
    /\ comp_lock = "finished" => pc = "done" /\ exit_cause = "finished"
    /\ exit_cause \in {"finished", "wait_dispatch"} =>
         /\ exit_code = 2
         /\ ~entered_loop
         /\ ~run_display
         /\ unlock_requests = 0
C9_Witness == comp_lock = "finished" /\ exit_code = 2

(* C10: when a required global is missing after the registry roundtrip,    *)
(* the process exits with code 1 before the lock is requested, before any  *)
(* lock surface is created and before the reactor loop.                    *)
RegistryRoundtripDone ==
    /\ pc \notin {"start", "parse_early", "load_config", "parse_cli",
                  "password_create", "pipe", "fcntl", "connect",
                  "roundtrip1", "check_globals"}
    /\ exit_cause \notin {"version", "parse_early", "config", "parse_cli",
                          "password_create", "pipe", "fcntl", "connect",
                          "roundtrip1"}
C10_MissingGlobalExits1 ==
    (RegistryRoundtripDone /\ advertised # Interfaces) =>
        /\ pc = "done"
        /\ exit_code = 1
        /\ ~lock_requested
        /\ comp_lock = "none"
        /\ \A o \in Outputs : ~surfaces[o].created
        /\ ~entered_loop
C10_Witness ==
    /\ exit_cause = "missing_global"
    /\ exit_code = 1
    /\ "wl_shm" \notin advertised
    /\ \E o \in Outputs : surfaces[o].listed


(* Option values the program cannot use: a flag it does not know, a        *)
(* scaling mode it does not know, a color that is not 6 or 8 hex digits.   *)
Malformed == {"unknown", "bad_mode", "bad_color"}

(* C11: a malformed configuration value, on the command line or in a line  *)
(* of the config file, makes the process exit with code 1 when it is       *)
(* parsed, before the Secret Buffer is created and before the lock is      *)
(* requested.                                                               *)
C11_MalformedConfigExits1 ==
    /\ [](exit_cause \in {"parse_early", "config", "parse_cli"} =>
            /\ exit_code = 1
            /\ password.region = "none"
            /\ ~lock_requested)
    /\ [][/\ (pc = "load_config" /\ config_line \in Malformed /\ pc' # pc)
               => (pc' = "done" /\ exit_code' = 1)
          /\ (pc = "parse_cli" /\ argv \in Malformed /\ pc' # pc)
               => (pc' = "done" /\ exit_code' = 1)]_vars

(* C12: main returns 0 only when the reactor loop ended because unlock was *)
(* authorized (an ok Verdict or a dispatched wake byte), never when it     *)
(* ended because display dispatch or flush failed.                          *)
C12_ReturnZeroOnlyAfterAuthorizedStop ==
    (exit_cause = "return" /\ exit_code = 0) =>
        /\ stop_cause # {}
        /\ stop_cause \subseteq {"verdict", "wake"}

(* C13: failed_attempts is 0 when main starts and no step of the parent,   *)
(* of a callback, of a timer or of the signal handler ever lowers it.      *)
C13_FailedAttemptsMonotone ==
    /\ [](pc \in {"start", "parse_early"} => failed_attempts = 0)
    /\ [][failed_attempts' >= failed_attempts]_vars
C13_Witness ==
    /\ failed_attempts = 1
    /\ auth_state = "IDLE"
    /\ ~auth_idle_timer
    /\ stop_cause = {"verdict"}
    /\ exit_code = 0

(* C14: initialize_pw_backend (the fork of the Credential Worker and the   *)
(* parent's privilege drop) has returned before the Secret Buffer is       *)
(* created, before the display is connected, before the lock is requested  *)
(* and before any keystroke can arrive or the reactor loop runs.           *)
C14_WorkerBeforeSecret ==
    /\ [](\/ password.region # "none"
          \/ password.len > 0
          \/ pc \in {"connect", "roundtrip1", "check_globals", "lock"}
          \/ lock_requested
          \/ has_focus
          \/ entered_loop
          \/ comm_req # <<>>
          => worker # "none")
    /\ [][password.region # password'.region => worker # "none"]_vars
C14_Witness ==
    /\ worker = "alive"
    /\ password.region = "locked"
    /\ password.len > 0
    /\ entered_loop

(* The bytes of a sequence without its last one. *)
Front(seq) == SubSeq(seq, 1, Len(seq) - 1)

(* C15: on the Secret Buffer alone, after every sequence of append and    *)
(* remove_last the length equals the number of appends minus the number of *)
(* removes clamped at zero, also when an append finds the length equal to  *)
(* the capacity (the capacity grows and never shrinks); an append puts its *)
(* byte at the end; no byte past the length is non-zero, so after clear    *)
(* (length 0) and after remove_last the vacated bytes are zero.            *)
C15_BufferLengthAndZeroing ==
    /\ [](/\ password.len = appended
          /\ password.len <= password.buffer_len
          /\ Len(password.buffer) <= password.len)
    /\ [][/\ password'.buffer_len >= password.buffer_len
          /\ appended' = appended + 1 =>
                Front(password_bytes(password')) = password_bytes(password)
          /\ appended' < appended =>
                password_bytes(password') =
                    SubSeq(password_bytes(password), 1, appended')]_vars
C15_Witness ==
    /\ pc = "password_ops"
    /\ password.len = 3
    /\ password.buffer_len = 4

(* C16: on every exit path taken after the Secret Buffer was created, the  *)
(* buffer has been destroyed (zeroed over its capacity and released) when  *)
(* the process exits.                                                       *)
C16_DestroyOnEveryExit ==
    (pc = "done" /\ password.region # "none") =>
        /\ password.region = "released"
        /\ password.buffer = <<>>

(* The write call of a Submit has returned: the message was written, or    *)
(* the write failed and the parent gives up.                                *)
SubmitReturned ==
    \/ SubmitWritten
    \/ exit_cause # "comm_write" /\ exit_cause' = "comm_write"

(* C17, as claimed: when the write call of a Submit has returned, with     *)
(* success or failure, the parent's buffer is all zero; and while          *)
(* auth_state = Validating the parent holds no non-zero secret byte.       *)
C17_NoSecretBytesWhileValidating ==
    /\ [](auth_state = "VALIDATING" => password.buffer = <<>>)
    /\ [][SubmitReturned =>
            password'.len = 0 /\ password'.buffer = <<>>]_vars

(* C17, amended: when the write call of a Submit has returned, with        *)
(* success or failure, the parent's copy of the submitted bytes is all     *)
(* zero before any further event (the whole region is zero and the length  *)
(* is 0); no byte past the length is ever non-zero, so while Validating    *)
(* the buffer holds only the bytes typed after that Submit.                *)
C17_SubmittedBytesZeroed ==
    /\ [](Len(password.buffer) <= password.len /\ password.len = appended)
    /\ [][SubmitReturned =>
            /\ password'.len = 0
            /\ password'.buffer = <<>>
            /\ appended' = 0]_vars
C17_Witness ==
    /\ auth_state = "VALIDATING"
    /\ Len(comm_req) = 1
    /\ Len(comm_req[1]) = 2
    /\ password.buffer = <<>>
    /\ password.region = "locked"

(* Submit messages sent minus Verdict bytes read by the parent. *)
InFlight == Len(comm_req) + Len(comm_rep)

(* C18: the number of Submits sent minus the number of Verdicts read is 0  *)
(* or 1, and while the reactor loop runs it is 1 whenever auth_state =     *)
(* Validating; auth_state leaves Validating only in comm_in, when the      *)
(* reply channel is read, not by the idle timer of an earlier failed       *)
(* verdict and not by a keystroke.                                          *)
C18_OneVerdictInFlight ==
    /\ [](InFlight \in {0, 1})
    /\ []((auth_state = "VALIDATING" /\ run_display) => InFlight = 1)
    /\ [][(auth_state = "VALIDATING" /\ auth_state' # "VALIDATING") =>
            CommInStep]_vars

(* The program counters of the reactor loop, main.c:951-957. *)
InReactorLoop == pc \in {"loop_top", "flush", "poll", "dispatch", "timers"}

C20_InvalidDecaysToIdle ==
    /\ (auth_state = "INVALID" /\ InReactorLoop /\ run_display)
           ~> (auth_state # "INVALID" \/ ~InReactorLoop \/ ~run_display)
    /\ [][(auth_idle_timer /\ ~auth_idle_timer') =>
            /\ auth_state' = "IDLE"
            /\ failed_attempts' = failed_attempts
            /\ run_display' = run_display
            /\ stop_cause' = stop_cause]_vars
    /\ []((/\ auth_state = "INVALID"
           /\ run_display
           /\ pc = "dispatch" /\ ready # <<>> /\ Head(ready) = "comm_in")
              => comm_rep # <<>>)

(* C21: loop_poll is entered only from wl_display_flush of the same        *)
(* iteration; the flush goes on to loop_poll when it succeeds or returns   *)
(* EAGAIN, and leaves the loop for the teardown, without waiting, only     *)
(* with a display error.                                                    *)
C21_FlushBeforeEveryWait ==
    /\ [][(pc' = "poll" /\ pc # "poll") => pc = "flush"]_vars
    /\ [][(pc = "flush" /\ pc' # "flush") =>
            \/ pc' = "poll" /\ wl_err' = wl_err /\ ready' = ready
            \/ pc' = "unlock" /\ wl_err' /\ "flush" \in stop_cause']_vars
    /\ [][(pc = "loop_top" /\ pc' # "loop_top") =>
            pc' = (IF run_display THEN "flush" ELSE "unlock")]_vars

(* loop_poll is reached in a second iteration, after a failed verdict. *)
C21_Witness ==
    /\ pc = "poll"
    /\ auth_state = "INVALID"
    /\ failed_attempts > 0
    /\ ~wl_err

(* A callback of the reactor is invoked: the callback of a ready fd or a   *)
(* timer callback.                                                          *)
CallbackStep ==
    \/ pc = "dispatch" /\ ready # <<>> /\ ready' = Tail(ready)
    \/ /\ pc = "timers" /\ pc' = "timers"
       /\ <<auth_state, input_state>>' # <<auth_state, input_state>>

(* The loop was entered and a callback has cleared run_display. *)
LoopStopped == entered_loop /\ ~run_display

(* The teardown, unlock request then roundtrip, runs once. *)
TeardownOnce ==
    /\ [](unlock_requests <= 1)
    /\ []((pc = "done" /\ exit_cause = "return") => unlock_requests = 1)
    /\ [][unlock_requests' # unlock_requests =>
            pc = "unlock" /\ pc' = "final_roundtrip"]_vars

(* C22, as claimed: once a callback has cleared run_display no flush and   *)
(* no loop_poll is started, no reactor callback is invoked any more, and   *)
(* the teardown runs exactly once.                                          *)
C22_NoCallbackAfterStop ==
    /\ [][LoopStopped =>
            (pc' \in {"flush", "poll"} => pc' = pc)]_vars
    /\ [][LoopStopped => ~CallbackStep]_vars
    /\ TeardownOnce

(* C22, amended: run_display is tested after each loop_poll; the callbacks *)
(* of the loop_poll in which run_display was cleared still run, and once   *)
(* that loop_poll has returned no flush, no loop_poll and no callback      *)
(* follows; the teardown runs exactly once.                                 *)
C22_LoopEndsAfterIteration ==
    /\ [][LoopStopped =>
            (pc' \in {"flush", "poll"} => pc' = pc)]_vars
    /\ [][(LoopStopped /\ pc \notin {"dispatch", "timers"}) =>
            /\ ~CallbackStep
            /\ pc' \notin {"dispatch", "timers"}]_vars
    /\ [][(LoopStopped /\ pc = "loop_top" /\ pc' # pc) => pc' = "unlock"]_vars
    /\ TeardownOnce

(* display_in cleared run_display, term_in still ran in the same           *)
(* loop_poll, and main has returned after one teardown.                    *)
C22_Witness ==
    /\ pc = "done" /\ exit_cause = "return"
    /\ {"display", "wake"} \subseteq stop_cause
    /\ unlock_requests = 1

(* A transition of the parent's state machine. *)
Transition == <<auth_state, input_state>>' # <<auth_state, input_state>>

(* surface_frame_handle_done runs for output o with the surface dirty: the *)
(* one place besides the configure handler that calls render_frame.        *)
FrameDoneRenders(o) ==
    /\ dispatching
    /\ surfaces[o].frame_callbacks > 0
    /\ surfaces[o].dirty /\ ~surfaces'[o].dirty
    /\ surfaces'[o].frame_pending
    /\ UNCHANGED <<pc, smVars, run_display>>

(* C23: every transition of auth_state or input_state leaves every         *)
(* configured surface dirty with a frame callback pending (the redraw is   *)
(* requested) and clears no dirty mark (nothing is drawn by the request);  *)
(* a dirty mark is cleared, that is render_frame runs for a damaged        *)
(* surface, only in the done handler of a frame callback.                  *)
C23_TransitionsRequestRedraw ==
    /\ [][Transition =>
            \A o \in Outputs :
              /\ (surfaces[o].listed /\ surfaces[o].configured) =>
                    (surfaces'[o].dirty /\ surfaces'[o].frame_pending)
              /\ surfaces[o].dirty => surfaces'[o].dirty
              /\ ~surfaces[o].configured => surfaces'[o] = surfaces[o]]_vars
    /\ [][\A o \in Outputs :
            (surfaces[o].dirty /\ ~surfaces'[o].dirty) =>
               FrameDoneRenders(o)]_vars

(* A Submit has damaged a configured surface and the frame is not yet      *)
(* drawn.                                                                   *)
C23_Witness ==
    /\ auth_state = "VALIDATING"
    /\ \E o \in Outputs : surfaces[o].configured /\ surfaces[o].dirty

(* The images of the list given for the output name. *)
ImagesFor(list, name) ==
    {i \in 1..Len(list) : list[i].output_name = name}

(* The precedence rule: the image of the surface's output, else the        *)
(* default image, else none.                                                *)
ImageByPrecedence(list, name) ==
    IF name # NULL /\ ImagesFor(list, name) # {}
    THEN list[CHOOSE i \in ImagesFor(list, name) : TRUE].cairo_surface
    ELSE IF ImagesFor(list, NULL) # {}
    THEN list[CHOOSE i \in ImagesFor(list, NULL) : TRUE].cairo_surface
    ELSE NULL

(* C24: a created surface has the image given for its output name if the   *)
(* list has one, wherever it stands in the list, else the default image    *)
(* if the list has one, else none; with the output name unknown it has the *)
(* default image.  The list holds at most one image per output name.       *)
C24_SelectImagePrecedence ==
    /\ \A i, j \in 1..Len(images) :
         images[i].output_name = images[j].output_name => i = j
    /\ \A o \in Outputs :
         surfaces[o].created =>
            surfaces[o].image = ImageByPrecedence(images,
                                                  surfaces[o].output_name)

(* The default image stands before the image of the surface's output in    *)
(* the list, and the surface got the image of its output.                  *)
C24_Witness ==
    \E o \in Outputs :
      /\ surfaces[o].created
      /\ surfaces[o].output_name = o
      /\ Len(images) = 3
      /\ images[1].output_name = NULL
      /\ images[3].output_name = o
      /\ surfaces[o].image = images[3].cairo_surface
      /\ surfaces[o].image # images[1].cairo_surface

(* C25: for every surface, between callbacks, dirty implies frame_pending; *)
(* at most one frame callback is outstanding and frame_pending says        *)
(* whether one is; an unconfigured surface is clean, has no callback       *)
(* outstanding and is left as it is by damage_surface.                     *)
C25_RedrawSchedulerInvariant ==
    \A o \in Outputs :
      /\ surfaces[o].dirty => surfaces[o].frame_pending
      /\ surfaces[o].frame_callbacks \in {0, 1}
      /\ surfaces[o].frame_pending <=> surfaces[o].frame_callbacks = 1
      /\ ~surfaces[o].configured =>
            /\ ~surfaces[o].dirty
            /\ surfaces[o].frame_callbacks = 0
            /\ damage_surface(surfaces[o]) = surfaces[o]

(* After a key and a Submit damaged the surface, the done handler drew it  *)
(* and requested the next frame callback: frame_pending without dirty.     *)
C25_Witness ==
    \E o \in Outputs :
      /\ surfaces[o].configured
      /\ surfaces[o].frame_pending /\ ~surfaces[o].dirty
      /\ auth_state = "VALIDATING"
      /\ input_state = "LETTER"

(* The run has come to the bound of the model on failed_attempts: comm_in  *)
(* is due for one more failed verdict.                                      *)
AtFailedAttemptsBound ==
    /\ failed_attempts = MaxFailedAttempts
    /\ pc = "dispatch" /\ ready # <<>> /\ Head(ready) = "comm_in"

(* C26: a surface that damage_surface has marked dirty while the reactor   *)
(* loop runs is later drawn by render_frame (its dirty mark is cleared by  *)
(* the done handler), unless the loop ends first; the compositor delivers  *)
(* every requested frame-done event.                                        *)
C26_NoRedrawRequestLost ==
    \A o \in Outputs :
      (surfaces[o].dirty /\ InReactorLoop /\ run_display)
         ~> (\/ ~surfaces[o].dirty
             \/ ~InReactorLoop \/ ~run_display
             \/ AtFailedAttemptsBound)

(* The redraw requested by comm_in for a failed verdict has been drawn     *)
(* while the loop goes on.                                                  *)
C26_Witness ==
    /\ InReactorLoop /\ run_display
    /\ auth_state = "INVALID"
    /\ \E o \in Outputs :
         /\ surfaces[o].configured
         /\ ~surfaces[o].dirty
         /\ surfaces[o].frame_pending

(* C27: failed_attempts never runs ahead of the Submits sent: each         *)
(* increment takes one Verdict out of the channel, and the worker puts one *)
(* Verdict into the channel for each Submit it takes out.                  *)
C27_FailedAttemptsAtMostSubmits ==
    /\ [][failed_attempts' > failed_attempts =>
            /\ failed_attempts' = failed_attempts + 1
            /\ comm_rep # <<>>
            /\ comm_rep' = Tail(comm_rep)]_vars
    /\ [][Len(comm_rep') > Len(comm_rep) =>
            /\ Len(comm_rep') = Len(comm_rep) + 1
            /\ comm_req # <<>>
            /\ comm_req' = Tail(comm_req)]_vars

(* C28: the handler for SIGUSR1 is installed, run_display is set and the   *)
(* reactor loop is entered only with state.locked set by the locked event; *)
(* so comm_in and term_in run, and the unlock request is issued, only in   *)
(* runs in which the compositor confirmed the lock.                        *)
C28_LoopOnlyAfterLocked ==
    /\ []((sigusr_handler \/ run_display \/ entered_loop) =>
             (locked /\ comp_lock # "pending"))
    /\ [](unlock_requests > 0 => locked)
    /\ [][(CommInStep \/ TermInStep \/ sigusr_pipe' # sigusr_pipe) =>
            locked]_vars
    /\ [][(pc = "register" /\ pc' # pc) => locked]_vars
    /\ [][locked => locked']_vars

(* The lock was confirmed, the loop ran, term_in handled a wake byte and   *)
(* main returned after the unlock request.                                  *)
C28_Witness ==
    /\ locked
    /\ "wake" \in stop_cause
    /\ unlock_requests = 1
    /\ pc = "done" /\ exit_cause = "return"

(* main is past its loop over state.surfaces (main.c:926-929) and either   *)
(* waits for the locked event or runs the reactor loop.                    *)
WaitingOrRunning ==
    \/ pc \in {"wait_locked", "wait_dispatch", "register"}
    \/ InReactorLoop /\ run_display

(* C29: an announced output whose done event has been delivered has its    *)
(* lock surface created, also when the output is announced while main      *)
(* waits for the locked event or while the reactor loop runs; before that  *)
(* the loop of main over state.surfaces is still to come.                  *)
C29_EveryOutputGetsSurface ==
    \A o \in Outputs :
      (surfaces[o].listed /\ surfaces[o].done_seen /\ WaitingOrRunning)
         => surfaces[o].created

====
